---- MODULE Spec2Model ----
(***************************************************************************)
(* AzureMLFolderDataSet (src/kedro_azureml/datasets/folder_dataset.py):    *)
(* one dataset instance at a time, the remote data-asset store it queries  *)
(* and the local disk it downloads to.  A call (resolve_load_version,      *)
(* path, load, save) runs as a sequence of steps, one per remote           *)
(* operation, so that the remote store can change between two steps.       *)
(***************************************************************************)
EXTENDS Integers, Sequences, FiniteSets, TLC

\* ------------------------------------------------------------------ bounds
MaxCalls == 2          \* resolve/path/load/save calls in one behaviour
MaxRemoteChanges == 2  \* versions registered or archived in one behaviour

\* ------------------------------------------------------------- file names
\* A file or directory name is the sequence of its dot-separated pieces:
\* "orders.csv" is <<"orders", "csv">>, "3" is <<"3">>, "." is <<"", "">>.
Dot == <<"", "">>
Root == <<"/">>        \* the leading separator of an absolute path string
None == <<"None">>     \* Python's None

\* PurePath.suffix: i = name.rfind('.'); the suffix is name[i:] when
\* 0 < i < len(name) - 1, and '' otherwise.
NameSuffix(name) ==
    IF /\ Len(name) >= 2
       /\ ~(Len(name) = 2 /\ name[1] = "")
       /\ name[Len(name)] # ""
    THEN name[Len(name)]
    ELSE ""

\* Path(s): the raw segments of the string s, "." segments dropped, a
\* leading separator making the path absolute.
ParsePath(raw) ==
    LET isAbs == raw # <<>> /\ raw[1] = Root
        rest == IF isAbs THEN Tail(raw) ELSE raw
    IN  [abs |-> isAbs, parts |-> SelectSeq(rest, LAMBDA s : s # Dot)]

\* Path.__truediv__: an absolute right operand discards the left one.
Join(p, q) ==
    IF q.abs THEN q ELSE [abs |-> p.abs, parts |-> p.parts \o q.parts]

\* Path.suffix, Path.parent, Path.name
PathSuffix(p) ==
    IF p.parts = <<>> THEN "" ELSE NameSuffix(p.parts[Len(p.parts)])

PathParent(p) ==
    IF p.parts = <<>> THEN p
    ELSE [p EXCEPT !.parts = SubSeq(p.parts, 1, Len(p.parts) - 1)]

PathName(p) == p.parts[Len(p.parts)]

\* str(path): the segments again, "." for the empty relative path.
PathStr(p) ==
    IF p.abs THEN <<Root>> \o p.parts
    ELSE IF p.parts = <<>> THEN <<Dot>>
    ELSE p.parts

\* --------------------------------------------------------------- inputs
AssetName == <<"sales">>
Versions == {<<"3">>, <<"4">>, <<"1", "5">>}
Folders == {<<<<"data">>>>}
Filepaths == {
    <<<<"orders", "csv">>>>,            \* orders.csv
    <<<<"orders">>>>,                   \* orders
    <<Dot>>,                            \* .
    <<Root, <<"orders", "csv">>>> }     \* /orders.csv
AssetTypes == {"uri_file", "uri_folder", "mltable"}

VARIABLES
    \* the dataset object
    phase,            \* "new", "ready", "ctor_error"
    version,          \* self._version: the load version given, or None
    version_cache,    \* self._version_cache: a set of <<key, value>>
    download,         \* self._download
    local_run,        \* self._local_run
    azureml_config,   \* self._azureml_config
    folder,           \* self.folder (raw string)
    filepath,         \* self._dataset_config[self._filepath_arg] (raw string)
    dataset_config,   \* the keys of self._dataset_config
    \* the call in progress
    op,               \* the last call: "none", "resolve", "path", ...
    pc,               \* position in the call, "idle" between calls
    ret,              \* where resolve_load_version returns to
    resolved,         \* the value resolve_load_version returned last
    err,              \* the exception in flight
    azureml_ds,       \* the asset _get_azureml_dataset returned
    todo,             \* fs.ls results not yet downloaded
    clients,          \* open remote clients: queries made by each
    log,              \* the operations of the current call, in order
    outcome,          \* how the last call ended
    result,           \* the value the last call returned
    \* per dataset object
    resolveReturns,   \* the values resolve_load_version has returned
    lookups,          \* "latest" lookups issued
    failedLookups,    \* those of them that found no asset
    downloaded,       \* versions an earlier load has downloaded fully
    fresh,            \* no call has been made on the object yet
    version_arg,      \* the version argument the object was constructed with
    \* the world
    remoteVersions,   \* the versions of the asset the store holds
    latest,           \* the version labelled "latest"
    assetType,        \* the asset's type
    disk,             \* local files: [dir, name, src]
    calls,            \* calls started
    remoteChanges,    \* changes made to the remote store
    \* save(data) and the inner dataset
    data,             \* the argument of the save() in progress or last made
    saved,            \* what the inner dataset's save received in this call
    \* the catalog the local-run hook works on
    catalog,          \* catalog._data_sets: name -> dataset
    runner,           \* run_params["runner"], in dot-separated pieces
    inputs,           \* pipeline.inputs()
    added,            \* name -> the catalog.add calls made with it
    hook_ran          \* before_pipeline_run has returned

objVars == <<phase, version, version_cache, download, local_run,
             azureml_config, folder, filepath, dataset_config>>
callVars == <<op, pc, ret, resolved, err, azureml_ds, todo, clients, log,
              outcome, result>>
histVars == <<resolveReturns, lookups, failedLookups, downloaded, fresh,
              version_arg>>
remoteVars == <<remoteVersions, latest, assetType, remoteChanges>>
hookVars == <<catalog, runner, inputs, added, hook_ran>>
vars == <<objVars, callVars, histVars, remoteVars, disk, calls, data, saved,
          hookVars>>


\* ---------------------------------------------------------- remote store
\* The storage of version v of the asset: a folder with a subfolder and a
\* file, listed in the order fs.ls reports them.
Rel(parts) == [abs |-> FALSE, parts |-> parts]
StorageRoot(v) == Rel(<<<<"store">>, v>>)
StoreEntries(v) == <<
    [path |-> Rel(<<<<"store">>, v, <<"orders">>>>), dir |-> TRUE],
    [path |-> Rel(<<<<"store">>, v, <<"orders", "csv">>>>), dir |-> FALSE],
    [path |-> Rel(<<<<"store">>, v, <<"orders">>, <<"part", "csv">>>>),
     dir |-> FALSE] >>

\* ml_client.data.get(name, version=v): type and path of the asset.
AssetOf(v) ==
    [type |-> assetType,
     path |-> IF assetType = "uri_file"
              THEN Rel(<<<<"store">>, v, <<"orders", "csv">>>>)
              ELSE StorageRoot(v),
     version |-> v]

Exists(v, p) == \E i \in 1..Len(StoreEntries(v)) : StoreEntries(v)[i].path = p
IsDir(v, p) ==
    \/ p = StorageRoot(v)
    \/ \E i \in 1..Len(StoreEntries(v)) :
          StoreEntries(v)[i].path = p /\ StoreEntries(v)[i].dir

PathsOf(entries) == [i \in 1..Len(entries) |-> entries[i].path]

\* fs.ls(p): the entries directly under a folder, the file itself for a file.
Ls(v, p) ==
    IF IsDir(v, p)
    THEN PathsOf(SelectSeq(StoreEntries(v),
                           LAMBDA e : PathParent(e.path) = p))
    ELSE <<p>>

NoAsset == [type |-> "none", path |-> Rel(<<>>), version |-> None]

\* -------------------------------------------------------------- Init
Data == {"rows_a", "rows_b"}   \* what save() can be given
NoData == "None"

\* The dataset before its first construction, the store and the disk.
DatasetInit ==
    /\ phase = "new"
    /\ version = None
    /\ version_cache = {}
    /\ download = FALSE
    /\ local_run = FALSE
    /\ azureml_config = "None"
    /\ folder = <<<<"data">>>>
    /\ filepath = <<Dot>>
    /\ dataset_config = {}
    /\ op = "none"
    /\ pc = "idle"
    /\ ret = "idle"
    /\ resolved = None
    /\ err = "none"
    /\ azureml_ds = NoAsset
    /\ todo = <<>>
    /\ clients = <<>>
    /\ log = <<>>
    /\ outcome = "none"
    /\ result = <<>>
    /\ resolveReturns = {}
    /\ lookups = 0
    /\ failedLookups = 0
    /\ downloaded = {}
    /\ calls = 0
    /\ fresh = TRUE
    /\ version_arg = None
    /\ remoteVersions = {<<"3">>}
    /\ latest = <<"3">>
    /\ assetType \in AssetTypes
    /\ remoteChanges = 0
    /\ disk = {}
    /\ data = NoData
    /\ saved = <<>>

\* No catalog: the dataset is used on its own.
Init ==
    /\ DatasetInit
    /\ catalog = <<>>
    /\ runner = <<>>
    /\ inputs = {}
    /\ added = <<>>
    /\ hook_ran = FALSE

\* ------------------------------------------------------- construction
\* kedro's parse_dataset_definition, called by the base class constructor:
\* the "versioned" flag is popped and, when set, replaced by a "version"
\* key.
InnerDefinitions == [versioned : {"absent", "true", "false"}]

parse_dataset_definition(def) ==
    {"filepath"} \cup (IF def.versioned = "true" THEN {"version"} ELSE {})

VERSION_KEY == "version"
VERSIONED_FLAG_KEY == "versioned"

InitVersionDropped(v) == None

\* self._version = version
InitVersion(v) == v

ConfigConflictFlag(config) == VERSIONED_FLAG_KEY \in config

\* if VERSION_KEY in self._dataset_config: raise DataSetError(...)
ConfigConflict(config) == VERSION_KEY \in config

\* __init__: the fields, then the check of the inner configuration.  A new
\* object replaces one that has been used, or one whose construction
\* failed; nothing of a failed construction is kept.
Construct(v, fld, fp, def) ==
    /\ pc = "idle" /\ calls < MaxCalls
    /\ phase = "ready" => ~fresh
    /\ dataset_config' = parse_dataset_definition(def)
    /\ IF ConfigConflict(dataset_config')
       THEN /\ phase' = "ctor_error"
            /\ outcome' = "DataSetError"
            /\ version' = None
            /\ version_arg' = None
            /\ folder' = <<<<"data">>>>
            /\ filepath' = <<Dot>>
       ELSE /\ phase' = "ready"
            /\ outcome' = "none"
            /\ version' = InitVersion(v)
            /\ version_arg' = v
            /\ folder' = fld
            /\ filepath' = fp
    /\ version_cache' = {}
    /\ download' = FALSE
    /\ local_run' = FALSE
    /\ azureml_config' = "None"
    /\ log' = <<>>
    /\ result' = <<>>
    /\ resolveReturns' = {}
    /\ lookups' = 0
    /\ failedLookups' = 0
    /\ downloaded' = {}
    /\ fresh' = TRUE
    /\ op' = "none"
    /\ data' = NoData
    /\ saved' = <<>>
    /\ UNCHANGED <<pc, ret, resolved, err, azureml_ds, todo, clients,
                   calls, remoteVars, disk, hookVars>>

\* as_local(azure_config, download): the setter the local-run hook calls
\* before the catalog serves the dataset.
as_local(d) ==
    /\ phase = "ready" /\ pc = "idle" /\ fresh /\ ~local_run
    /\ download' = d
    /\ local_run' = TRUE
    /\ azureml_config' = "azure_config"
    /\ UNCHANGED <<phase, version, version_cache, folder, filepath,
                   dataset_config, callVars, histVars, remoteVars, disk,
                   calls, data, saved, hookVars>>


\* ------------------------------------------------------ version cache
\* Cache(maxsize=2): a full cache drops an entry before it takes a new one.
CacheMaxSize == 2
CacheHas(key) == \E e \in version_cache : e[1] = key
CacheGet(key) == (CHOOSE e \in version_cache : e[1] = key)[2]
CachePut(key, value) ==
    LET kept == {e \in version_cache : e[1] # key}
        room == IF Cardinality(kept) >= CacheMaxSize
                THEN kept \ {CHOOSE e \in kept : TRUE}
                ELSE kept
    IN  room \cup {<<key, value>>}

\* ----------------------------------------------------------- the calls
Logged(e) == log' = Append(log, e)

\* A call, or the exception that ends it, leaves nothing behind but its log.
Finish(out, res) ==
    /\ pc' = "idle"
    /\ UNCHANGED op
    /\ ret' = "idle"
    /\ resolved' = None
    /\ err' = "none"
    /\ azureml_ds' = NoAsset
    /\ todo' = <<>>
    /\ outcome' = out
    /\ result' = res

Returns(v, next) ==
    /\ resolved' = v
    /\ resolveReturns' = resolveReturns \cup {v}
    /\ pc' = next
    /\ UNCHANGED <<ret, clients, log>>

fetch_uncached(next) ==
    /\ pc' = "glv_query"
    /\ ret' = next
    /\ clients' = Append(clients, 0)
    /\ Logged("acquire")
    /\ UNCHANGED <<resolved, resolveReturns>>

\* _fetch_latest_load_version: the cached value, or _get_latest_version,
\* which first acquires a client.
fetch_latest_load_version(next) ==
    IF CacheHas("load")
    THEN Returns(CacheGet("load"), next)
    ELSE /\ pc' = "glv_query"
         /\ ret' = next
         /\ clients' = Append(clients, 0)
         /\ Logged("acquire")
         /\ UNCHANGED <<resolved, resolveReturns>>

\* resolve_load_version(), evaluated at a place that continues at next.
resolve_load_version(next) ==
    IF version # None
    THEN Returns(version, next)
    ELSE fetch_latest_load_version(next)

ReleaseLeaks(cs) == IF err = "none" THEN SubSeq(cs, 1, Len(cs) - 1) ELSE cs

\* with _get_azureml_client(...) as ml_client: the block's exit releases
\* the client it acquired, however the block ends.
Release(cs) == SubSeq(cs, 1, Len(cs) - 1)
Released(cs) == IF cs[Len(cs)] = 1 THEN "release" ELSE "release_unused"

\* ml_client.data.get(name, label="latest").version
get_latest_version_query ==
    /\ pc = "glv_query"
    /\ lookups' = lookups + 1
    /\ clients' = [clients EXCEPT ![Len(clients)] = @ + 1]
    /\ IF remoteVersions # {}
       THEN /\ resolved' = latest
            /\ Logged("latest")
            /\ UNCHANGED <<err, failedLookups>>
       ELSE /\ err' = "ResourceNotFoundError"
            /\ failedLookups' = failedLookups + 1
            /\ Logged("latest_fail")
            /\ UNCHANGED resolved
    /\ pc' = "glv_exit"
    /\ UNCHANGED <<objVars, op, ret, azureml_ds, todo, outcome, result,
                   resolveReturns, downloaded, fresh, version_arg,
                   remoteVars, disk, calls, data, saved, hookVars>>

FailureCached == CachePut("load", None)

\* cachedmethod stores the value the method has returned: a lookup that
\* raises stores nothing.
FailureCache == version_cache

\* The client is released; the version is cached and returned, or
\* ResourceNotFoundError becomes DataSetNotFoundError, which passes through
\* the caller's own client block when there is one.
get_latest_version_exit ==
    /\ pc = "glv_exit"
    /\ clients' = Release(clients)
    /\ Logged(Released(clients))
    /\ IF err = "none"
       THEN /\ version_cache' = CachePut("load", resolved)
            /\ resolveReturns' = resolveReturns \cup {resolved}
            /\ pc' = ret
            /\ UNCHANGED <<op, ret, resolved, err, azureml_ds, todo, outcome,
                           result>>
       ELSE IF ret = "gad_get"
       THEN /\ err' = "DataSetNotFoundError"
            /\ pc' = "gad_exit"
            /\ version_cache' = FailureCache
            /\ UNCHANGED <<resolveReturns, op, ret, resolved, azureml_ds,
                           todo, outcome, result>>
       ELSE /\ Finish("AssetNotFound", <<>>)
            /\ version_cache' = FailureCache
            /\ UNCHANGED resolveReturns
    /\ UNCHANGED <<phase, version, download, local_run, azureml_config,
                   folder, filepath, dataset_config, lookups, failedLookups,
                   downloaded, fresh, version_arg, remoteVars, disk, calls,
                   data, saved, hookVars>>


\* -------------------------------------------------------------- paths
path_unversioned(v) == Join(ParsePath(folder), ParsePath(filepath))

\* The path property, given what resolve_load_version() returned.
path(v) ==
    IF local_run
    THEN Join(Join(Join(ParsePath(folder), ParsePath(<<AssetName>>)),
                   ParsePath(<<v>>)),
              ParsePath(filepath))
    ELSE Join(ParsePath(folder), ParsePath(filepath))

\* The download_path property.
download_path(v) ==
    IF PathSuffix(path(v)) # ""
    THEN PathStr(PathParent(path(v)))
    ELSE PathStr(path(v))

path_on_azure_root == azureml_ds.path

\* The relative path listed on the remote storage.
path_on_azure ==
    IF azureml_ds.type = "uri_file"
    THEN azureml_ds.path
    ELSE Join(azureml_ds.path, ParsePath(filepath))

\* fs.download(fpath, target, overwrite="APPEND") keeps a local file that
\* exists and transfers the others.
LocalFile(fpath, target) ==
    {e \in disk : e.dir = target /\ e.name = PathName(fpath)}

TransfersAlways(fpath, target) == TRUE

Transfers(fpath, target) == LocalFile(fpath, target) = {}

DiskAfter(fpath, target) ==
    IF Transfers(fpath, target)
    THEN (disk \ LocalFile(fpath, target))
         \cup {[dir |-> target, name |-> PathName(fpath), src |-> fpath]}
    ELSE disk

\* The load version the object holds: given, or cached.
LoadVersion ==
    IF version # None THEN version
    ELSE IF CacheHas("load") THEN CacheGet("load")
    ELSE None

\* ---------------------------------------------------- starting a call
Entry(o) ==
    CASE o = "resolve" -> "resolve"
      [] o = "path" -> "path"
      [] o = "load" -> "load_start"
      [] o = "save" -> "construct"

StartCall(o, d) ==
    /\ phase = "ready" /\ pc = "idle" /\ calls < MaxCalls
    /\ op' = o
    /\ data' = d
    /\ saved' = <<>>
    /\ pc' = Entry(o)
    /\ log' = <<>>
    /\ outcome' = "none"
    /\ result' = <<>>
    /\ calls' = calls + 1
    /\ fresh' = FALSE
    /\ downloaded' = downloaded \cup
          (IF op = "load" /\ download /\ outcome = "ok"
           THEN {LoadVersion} ELSE {})
    /\ UNCHANGED <<objVars, ret, resolved, err, azureml_ds, todo, clients,
                   resolveReturns, lookups, failedLookups, version_arg,
                   remoteVars, disk, hookVars>>

\* What a step that only evaluates resolve_load_version() leaves alone.
ResolveFrame ==
    UNCHANGED <<objVars, op, err, azureml_ds, todo, outcome, result,
                lookups, failedLookups, downloaded, fresh, version_arg,
                remoteVars, disk, calls, data, saved, hookVars>>

\* What a step that ends the call leaves alone.
FinishFrame ==
    UNCHANGED <<objVars, clients, histVars, remoteVars, disk, calls, data,
                saved, hookVars>>

\* A direct resolve_load_version() call.
resolve_call ==
    /\ pc = "resolve"
    /\ resolve_load_version("resolve_done")
    /\ ResolveFrame

resolve_done ==
    /\ pc = "resolve_done"
    /\ Finish("ok", <<resolved>>)
    /\ UNCHANGED log
    /\ FinishFrame

\* A direct read of the path property.
path_call ==
    /\ pc = "path"
    /\ IF local_run
       THEN resolve_load_version("path_done")
       ELSE /\ pc' = "path_done"
            /\ UNCHANGED <<resolved, resolveReturns, ret, clients, log>>
    /\ ResolveFrame

path_done ==
    /\ pc = "path_done"
    /\ Finish("ok", PathStr(path(resolved)))
    /\ UNCHANGED log
    /\ FinishFrame

\* ---------------------------------------------------------------- _load
\* if self._download: ... _get_azureml_dataset() acquires its client.
load_start ==
    /\ pc = "load_start"
    /\ IF download
       THEN /\ clients' = Append(clients, 0)
            /\ Logged("acquire")
            /\ pc' = "gad_arg"
       ELSE /\ pc' = "construct"
            /\ UNCHANGED <<clients, log>>
    /\ UNCHANGED <<objVars, op, ret, resolved, err, azureml_ds, todo,
                   outcome, result, histVars, remoteVars, disk, calls, data,
                   saved, hookVars>>

\* version=self.resolve_load_version(), evaluated with the client open.
get_azureml_dataset_arg ==
    /\ pc = "gad_arg"
    /\ resolve_load_version("gad_get")
    /\ ResolveFrame

\* ml_client.data.get(self._azureml_dataset, version=...)
get_azureml_dataset_get ==
    /\ pc = "gad_get"
    /\ clients' = [clients EXCEPT ![Len(clients)] = @ + 1]
    /\ IF resolved \in remoteVersions
       THEN /\ azureml_ds' = AssetOf(resolved)
            /\ Logged("get_asset")
            /\ UNCHANGED err
       ELSE /\ err' = "ResourceNotFoundError"
            /\ Logged("get_asset_fail")
            /\ UNCHANGED azureml_ds
    /\ pc' = "gad_exit"
    /\ UNCHANGED <<objVars, op, ret, resolved, todo, outcome, result,
                   histVars, remoteVars, disk, calls, data, saved, hookVars>>

CaughtAny(e) == e # "none"

\* except ResourceNotFoundError:
Caught(e) == e = "ResourceNotFoundError"

\* The with block ends; the handler takes what it catches.
get_azureml_dataset_exit ==
    /\ pc = "gad_exit"
    /\ clients' = Release(clients)
    /\ Logged(Released(clients))
    /\ IF err = "none"
       THEN /\ pc' = "ls"
            /\ UNCHANGED <<op, ret, resolved, err, azureml_ds, todo,
                           outcome, result>>
       ELSE IF Caught(err)
       THEN /\ pc' = "vnf"
            /\ err' = "none"
            /\ UNCHANGED <<op, ret, resolved, azureml_ds, todo, outcome,
                           result>>
       ELSE Finish("AssetNotFound", <<>>)
    /\ UNCHANGED <<objVars, histVars, remoteVars, disk, calls, data, saved,
                   hookVars>>

\* raise VersionNotFoundError(f"... {self.resolve_load_version()} ...")
version_not_found_message ==
    /\ pc = "vnf"
    /\ resolve_load_version("vnf_raise")
    /\ ResolveFrame

version_not_found_raise ==
    /\ pc = "vnf_raise"
    /\ Finish("VersionNotFound", <<>>)
    /\ UNCHANGED log
    /\ FinishFrame

\* The type switch and fs.ls(path_on_azure); with a type that is neither
\* uri_file nor uri_folder path_on_azure is unbound.
list_remote ==
    /\ pc = "ls"
    /\ IF azureml_ds.type \notin {"uri_file", "uri_folder"}
       THEN /\ Finish("UnboundLocalError", <<>>)
            /\ UNCHANGED log
       ELSE \/ /\ Exists(azureml_ds.version, path_on_azure)
                  \/ IsDir(azureml_ds.version, path_on_azure)
               /\ todo' = Ls(azureml_ds.version, path_on_azure)
               /\ Logged("ls")
               /\ pc' = "dl"
               /\ UNCHANGED <<op, ret, resolved, err, azureml_ds, outcome,
                              result>>
            \/ /\ Finish("RemoteError", <<>>)
               /\ Logged("ls_fail")
    /\ FinishFrame

LoopDoneEarly == Len(todo) <= 1

\* for fpath in fs.ls(path_on_azure): the loop ends when every listed path
\* has been taken.
LoopDone == todo = <<>>

\* for fpath in ...: self.download_path is read for each file.
download_next ==
    /\ pc = "dl"
    /\ IF LoopDone
       THEN /\ pc' = "construct"
            /\ UNCHANGED <<resolved, resolveReturns, ret, clients, log>>
       ELSE IF local_run
       THEN resolve_load_version("dl_fetch")
       ELSE /\ pc' = "dl_fetch"
            /\ UNCHANGED <<resolved, resolveReturns, ret, clients, log>>
    /\ ResolveFrame

DownloadFailsSkipped ==
    /\ Logged("download_fail")
    /\ todo' = Tail(todo)
    /\ pc' = "dl"
    /\ UNCHANGED <<op, ret, resolved, err, azureml_ds, outcome, result, disk>>

\* Nothing in the loop catches a failed transfer: it ends the call.
DownloadFails ==
    /\ Finish("RemoteError", <<>>)
    /\ Logged("download_fail")
    /\ UNCHANGED disk

\* fs.download(fpath, self.download_path, overwrite="APPEND")
download_file ==
    /\ pc = "dl_fetch"
    /\ \/ /\ disk' = DiskAfter(Head(todo), download_path(resolved))
          /\ Logged(IF Transfers(Head(todo), download_path(resolved))
                    THEN "transfer" ELSE "skip")
          /\ todo' = Tail(todo)
          /\ pc' = "dl"
          /\ UNCHANGED <<op, ret, resolved, err, azureml_ds, outcome,
                         result>>
       \/ DownloadFails
    /\ UNCHANGED <<objVars, clients, histVars, remoteVars, calls, data,
                   saved, hookVars>>

\* ------------------------------------------- _construct_dataset, _save
\* dataset_config[self._filepath_arg] = str(self.path)
construct_dataset ==
    /\ pc = "construct"
    /\ IF local_run
       THEN resolve_load_version("inner")
       ELSE /\ pc' = "inner"
            /\ UNCHANGED <<resolved, resolveReturns, ret, clients, log>>
    /\ ResolveFrame

StoredFilepathOverwritten(p) == p

\* dataset_config = self._dataset_config.copy(): the computed path p is
\* written to the copy, and the stored configuration keeps its entry.
StoredFilepath(p) == filepath

\* .save(data): the inner dataset is given the caller's data.
InnerSaveArg(d) == d

\* The rest of _construct_dataset, then .load() or .save(data) of the
\* inner dataset; the result records the file path the inner dataset got.
inner_call ==
    /\ pc = "inner"
    /\ filepath' = StoredFilepath(PathStr(path(resolved)))
    /\ Logged(IF op = "load" THEN "inner_load" ELSE "inner_save")
    /\ saved' = IF op = "save" THEN Append(saved, InnerSaveArg(data))
                ELSE saved
    /\ Finish("ok", PathStr(path(resolved)))
    /\ UNCHANGED <<phase, version, version_cache, download, local_run,
                   azureml_config, folder, dataset_config, clients,
                   histVars, remoteVars, disk, calls, data, hookVars>>

\* ------------------------------------------------------ the remote store
\* The store changes while a call runs: a change between two calls shows
\* to the object as a change right after the next call has started.
\* A new version of the asset is registered and becomes the latest.
RemoteRegister(v) ==
    /\ pc # "idle"
    /\ remoteChanges < MaxRemoteChanges
    /\ v \notin remoteVersions
    /\ remoteVersions' = remoteVersions \cup {v}
    /\ latest' = v
    /\ remoteChanges' = remoteChanges + 1
    /\ UNCHANGED <<objVars, callVars, histVars, assetType, disk, calls, data,
                   saved, hookVars>>

\* A version is archived; "latest" moves when it was the latest.
RemoteArchive(v) ==
    /\ pc # "idle"
    /\ remoteChanges < MaxRemoteChanges
    /\ v \in remoteVersions
    /\ remoteVersions' = remoteVersions \ {v}
    /\ latest' \in IF latest # v THEN {latest}
                   ELSE IF remoteVersions' = {} THEN {None}
                   ELSE remoteVersions'
    /\ remoteChanges' = remoteChanges + 1
    /\ UNCHANGED <<objVars, callVars, histVars, assetType, disk, calls, data,
                   saved, hookVars>>

Next ==
    \/ \E v \in Versions \cup {None}, fld \in Folders, fp \in Filepaths,
          def \in InnerDefinitions : Construct(v, fld, fp, def)
    \/ \E d \in BOOLEAN : as_local(d)
    \/ \E o \in {"resolve", "path", "load"} : StartCall(o, NoData)
    \/ \E d \in Data : StartCall("save", d)
    \/ resolve_call
    \/ resolve_done
    \/ path_call
    \/ path_done
    \/ get_latest_version_query
    \/ get_latest_version_exit
    \/ load_start
    \/ get_azureml_dataset_arg
    \/ get_azureml_dataset_get
    \/ get_azureml_dataset_exit
    \/ version_not_found_message
    \/ version_not_found_raise
    \/ list_remote
    \/ download_next
    \/ download_file
    \/ construct_dataset
    \/ inner_call
    \/ \E v \in Versions : RemoteRegister(v)
    \/ \E v \in Versions : RemoteArchive(v)

Spec == Init /\ [][Next]_vars

\* ----------------------------------------------------- the local-run hook
\* AzureMLLocalRunHook.before_pipeline_run (src/kedro_azureml/hooks.py) on
\* a catalog of datasets that have just been constructed.
DatasetNames == {"raw", "features", "model"}

\* run_params["runner"] in dot-separated pieces; the test for the runner
\* is a substring test, and a piece here is the class name or has nothing
\* of it.
RunnerNames == {
    <<"SequentialRunner">>,
    <<"AzurePipelinesRunner">>,
    <<"kedro_azureml", "runner", "AzurePipelinesRunner">> }

\* A dataset of the catalog: an asset dataset or any other dataset, with
\* the version it was constructed with.
FreshDatasets ==
    [asset : BOOLEAN, version : {None, <<"3">>}, local_run : {FALSE},
     download : {FALSE}, azureml_config : {"None"}]

HookInit ==
    /\ DatasetInit
    /\ catalog \in [DatasetNames -> FreshDatasets]
    /\ runner \in RunnerNames
    /\ inputs \in SUBSET DatasetNames
    /\ added = [n \in DatasetNames |-> 0]
    /\ hook_ran = FALSE

\* AzurePipelinesRunner.__name__ not in run_params["runner"]
NotAzureRunner ==
    \A i \in 1..Len(runner) : runner[i] # "AzurePipelinesRunner"

DownloadForAll(name) == TRUE

\* download = dataset_name in pipeline.inputs()
DownloadFor(name) == name \in inputs

\* dataset.as_local(azure_config, download=download)
AsLocalDataset(ds, config, d) ==
    [ds EXCEPT !.azureml_config = config, !.local_run = TRUE,
               !.download = d]

\* One turn of the loop over catalog._data_sets.items().
HookVisit(name, ds) ==
    IF ~ds.asset THEN ds
    ELSE IF NotAzureRunner
    THEN AsLocalDataset(ds, "azure_config", DownloadFor(name))
    ELSE [ds EXCEPT !.version = None]

\* The whole hook: every dataset is visited once, and catalog.add(name,
\* dataset, replace=True) puts each asset dataset back under its name.
before_pipeline_run ==
    /\ ~hook_ran
    /\ catalog' = [n \in DOMAIN catalog |-> HookVisit(n, catalog[n])]
    /\ added' = [n \in DOMAIN catalog |->
                    IF catalog[n].asset THEN added[n] + 1 ELSE added[n]]
    /\ hook_ran' = TRUE
    /\ UNCHANGED <<runner, inputs, objVars, callVars, histVars, remoteVars,
                   disk, calls, data, saved>>

HookNext == before_pipeline_run

HookSpec == HookInit /\ [][HookNext]_vars


\* ================================================================ claims
InLog(e) == \E i \in 1..Len(log) : log[i] = e
Count(e) == Cardinality({i \in 1..Len(log) : log[i] = e})
Last(q) == q[Len(q)]
Done(o) == op = o /\ pc = "idle" /\ phase = "ready" /\ outcome # "none"
RemoteOps ==
    {"acquire", "release", "release_unused", "latest", "latest_fail",
     "get_asset", "get_asset_fail", "ls", "ls_fail", "transfer", "skip",
     "download_fail"}

\* C1: a load() made while download-enabled is false performs no remote
\* operation, whatever the local-run flag and the version, and invokes the
\* inner dataset's load exactly once and nothing else.
C1_DisabledLoadIsLocal ==
    (op = "load" /\ ~download) =>
        /\ \A i \in 1..Len(log) : log[i] \notin RemoteOps
        /\ pc \notin {"glv_query", "glv_exit"}
        /\ Done("load") => log = <<"inner_load">>

\* C2: without an explicit version and with the asset found by every
\* lookup, all resolve_load_version() calls of one object return the same
\* version and the object issues exactly one "latest" lookup.
C2_CacheIdempotence ==
    (phase = "ready" /\ version_arg = None /\ failedLookups = 0) =>
        /\ Cardinality(resolveReturns) <= 1
        /\ lookups <= 1
        /\ resolveReturns # {} => lookups = 1
        /\ resolveReturns # {} => resolveReturns = {CacheGet("load")}

\* A second call answered from the cache after "latest" has moved on.
C2_Witness ==
    /\ Done("resolve") /\ outcome = "ok"
    /\ version_arg = None /\ failedLookups = 0
    /\ log = <<>>
    /\ lookups = 1
    /\ result # <<latest>>
    /\ remoteVersions # {}

RepeatLoadSkips ==
    (op = "load" /\ download /\ LoadVersion \in downloaded) =>
        ~InLog("transfer")

\* C4: a load() of a version that an earlier load() of the same object has
\* downloaded fully transfers no file, and no download ever overwrites or
\* removes a local file.
C4_DownloadIdempotent ==
    /\ []RepeatLoadSkips
    /\ [][disk \subseteq disk']_vars

\* A second load has finished and has skipped the files it found.
C4_Witness ==
    /\ Done("load") /\ outcome = "ok" /\ download
    /\ LoadVersion \in downloaded
    /\ InLog("skip")

\* The path <a>/<b>/... written as a string and read back as a path.
Layout(segments) ==
    Rel(SelectSeq(segments, LAMBDA x : x \notin {Dot, Root}))

PathShape ==
    /\ ParsePath(result) =
          IF local_run
          THEN Layout(folder \o <<AssetName, LoadVersion>> \o filepath)
          ELSE Layout(folder \o filepath)
    /\ local_run <=>
          \E i \in 1..Len(ParsePath(result).parts) :
              ParsePath(result).parts[i] \in Versions

PathComputed == op \in {"path", "load", "save"} /\ Done(op) /\ outcome = "ok"

C6_VersionsNeverCollide ==
    /\ \A e \in disk :
          e.dir[1] # Root => \E i \in 1..Len(e.dir) : e.dir[i] = e.src.parts[2]
    /\ (pc = "dl_fetch" /\ filepath[1] # Root) =>
          \A e \in LocalFile(Head(todo), download_path(resolved)) :
              e.src.parts[2] = azureml_ds.version

\* C7: in a download-enabled load() a version that get_asset does not find
\* ends the call with VersionNotFound, an asset that the "latest" lookup
\* does not find ends it with AssetNotFound, and neither becomes the other.
C7_NotFoundKinds ==
    (op = "load" /\ download) =>
        /\ (pc = "idle" /\ InLog("get_asset_fail")) =>
              outcome = "VersionNotFound"
        /\ (pc = "idle" /\ InLog("latest_fail")) => outcome = "AssetNotFound"
        /\ outcome = "VersionNotFound" => InLog("get_asset_fail")
        /\ outcome = "AssetNotFound" => InLog("latest_fail")

\* The "latest" lookup succeeded and get_asset then found no such version.
C7_Witness ==
    /\ Done("load") /\ download /\ version = None
    /\ InLog("latest") /\ InLog("get_asset_fail")
    /\ outcome = "VersionNotFound"
    /\ remoteVersions # {}

\* C8: a construction fails with the configuration conflict exactly when
\* the inner definition sets the versioning flag, and no remote operation
\* has been made when it ends.  (A construction is one with the arguments
\* the new object shows; a refused one shows the default ones.)
C8_VersionedInnerRejected ==
    [][\A def \in InnerDefinitions :
          Construct(version_arg', folder', filepath', def) =>
              /\ def.versioned = "true" <=>
                    (phase' = "ctor_error" /\ outcome' = "DataSetError")
              /\ def.versioned # "true" <=> phase' = "ready"
              /\ log' = <<>> /\ clients' = <<>> /\ lookups' = 0
              /\ pc' = "idle"]_vars

\* A construction has been refused.
C8_Witness ==
    /\ phase = "ctor_error" /\ outcome = "DataSetError"
    /\ log = <<>> /\ clients = <<>> /\ lookups = 0

\* C9: a failed listing or a failed file download ends load() at once:
\* nothing follows the failure, it is not tried again and the inner
\* dataset's load is not invoked.
C9_FailureEndsLoad ==
    (op = "load" /\ (InLog("ls_fail") \/ InLog("download_fail"))) =>
        /\ pc = "idle" /\ outcome = "RemoteError"
        /\ Last(log) \in {"ls_fail", "download_fail"}
        /\ Count("ls_fail") + Count("download_fail") = 1
        /\ Count("ls") + Count("ls_fail") <= 1
        /\ ~InLog("inner_load")

\* The first of two listed files failed and the second was not fetched.
C9_Witness ==
    /\ Done("load") /\ outcome = "RemoteError"
    /\ filepath = <<Dot>> /\ assetType = "uri_folder"
    /\ Len(log) >= 2
    /\ Last(log) = "download_fail" /\ log[Len(log) - 1] = "ls"
    /\ disk = {}

ClientsClosed ==
    /\ \A i \in 1..Len(clients) : clients[i] <= 1
    /\ pc = "idle" => clients = <<>>

\* C10 as stated: every client makes exactly one query, at most one client
\* is open at any time and none is open when a call has ended.
C10_OneClientAtATime ==
    /\ ClientsClosed
    /\ Len(clients) <= 1
    /\ ~InLog("release_unused")

\* C10 as amended: every client makes at most one query and is released
\* before the call ends; a second client is open only while the "latest"
\* lookup runs inside the client block of _get_azureml_dataset.
C10_ClientsScoped ==
    /\ ClientsClosed
    /\ Len(clients) <= 2
    /\ Len(clients) = 2 => (pc \in {"glv_query", "glv_exit"} /\ ret = "gad_get")
    /\ Count("acquire") =
          Len(clients) + Count("release") + Count("release_unused")

\* A load() that failed inside the nested lookup has released both clients.
C10_Witness ==
    /\ Done("load") /\ download /\ outcome = "AssetNotFound"
    /\ clients = <<>>
    /\ Count("acquire") = 2
    /\ InLog("release_unused")

TransferOps ==
    {"get_asset", "get_asset_fail", "ls", "ls_fail", "transfer", "skip",
     "download_fail"}

SaveIsLocal ==
    op = "save" =>
        /\ \A i \in 1..Len(log) : log[i] \notin TransferOps
        /\ pc # "idle" => saved = <<>>
        /\ (Done("save") /\ outcome = "ok") =>
              /\ Count("inner_save") = 1 /\ Last(log) = "inner_save"
              /\ saved = <<data>>
              /\ result = PathStr(path(LoadVersion))
        /\ (Done("save") /\ outcome # "ok") => saved = <<>>

SaveStep == op = "save" /\ pc # "idle"

\* C11: in every combination of the mode flags save(data) makes no
\* get_asset, listing or download and changes no local file; it hands the
\* inner dataset the path property as its file path, invokes the inner
\* save exactly once with the data it was given, and leaves the stored
\* inner configuration and the mode flags as they were.
C11_SaveDelegates ==
    /\ []SaveIsLocal
    /\ [][SaveStep =>
            /\ disk' = disk
            /\ filepath' = filepath /\ dataset_config' = dataset_config
            /\ download' = download /\ local_run' = local_run]_vars

\* A save() in local-run mode that looked the version up and delegated.
C11_Witness ==
    /\ Done("save") /\ outcome = "ok"
    /\ local_run /\ download
    /\ InLog("latest")
    /\ saved = <<"rows_b">>
    /\ result = <<<<"data">>, <<"sales">>, LoadVersion, <<"orders", "csv">>>>
    /\ disk # {}

\* p is q or lies under q.
Under(p, q) ==
    /\ p.abs = q.abs
    /\ Len(q.parts) <= Len(p.parts)
    /\ SubSeq(p.parts, 1, Len(q.parts)) = q.parts

\* <storage root>/<inner filepath> of the asset get_asset returned, the
\* asset's own storage path for a single file.
RelevantPath ==
    IF azureml_ds.type = "uri_file"
    THEN azureml_ds.path
    ELSE Rel(StorageRoot(azureml_ds.version).parts
             \o SelectSeq(filepath, LAMBDA x : x \notin {Dot, Root}))

ListsRelevantPath ==
    (op = "load" /\ azureml_ds.type \in {"uri_file", "uri_folder"}) =>
        /\ pc = "ls" => path_on_azure = RelevantPath
        /\ pc \in {"dl", "dl_fetch"} =>
              \A i \in 1..Len(todo) : Under(todo[i], RelevantPath)
        /\ (pc = "dl" /\ Last(log) = "ls") =>
              todo = Ls(azureml_ds.version, RelevantPath)

DownloadsToTarget ==
    pc = "dl_fetch" =>
        disk' \ disk \subseteq
            {[dir |-> download_path(LoadVersion),
              name |-> PathName(Head(todo)), src |-> Head(todo)]}

ListsRelevantOrAbsolute ==
    IF filepath[1] # Root THEN ListsRelevantPath
    ELSE (op = "load" /\ pc = "ls" /\ azureml_ds.type = "uri_folder") =>
             path_on_azure = ParsePath(filepath)

C13_TargetByInnerSuffix ==
    pc = "dl_fetch" =>
        download_path(resolved) =
            IF PathSuffix(ParsePath(filepath)) # ""
            THEN PathStr(PathParent(path(resolved)))
            ELSE PathStr(path(resolved))

\* The steps of a load() in their order; the client blocks around the
\* queries are not steps of their own.
Rank(e) ==
    CASE e \in {"latest", "latest_fail"} -> 1
      [] e \in {"get_asset", "get_asset_fail"} -> 2
      [] e \in {"ls", "ls_fail"} -> 3
      [] e \in {"transfer", "skip", "download_fail"} -> 4
      [] e = "inner_load" -> 5
      [] OTHER -> 0

\* What the listing of the loaded version returns.
Listed ==
    LET a == AssetOf(LoadVersion)
    IN  Ls(LoadVersion,
           IF a.type = "uri_file" THEN a.path
           ELSE Join(a.path, ParsePath(filepath)))

\* C14: in a load() the version is resolved before get_asset, get_asset
\* comes before the listing, the listing before the downloads and all
\* downloads before the inner dataset's load, no step is taken twice or
\* after a later one; a successful load() invokes the inner load once, as
\* its last step, on the path property, and downloads every listed object
\* first when, and only when, the object is local-run and download-enabled.
C14_LoadStepOrder ==
    op = "load" =>
        /\ \A i, j \in 1..Len(log) :
              (i < j /\ Rank(log[i]) > 0 /\ Rank(log[j]) > 0) =>
                  /\ Rank(log[i]) <= Rank(log[j])
                  /\ Rank(log[i]) = Rank(log[j]) => Rank(log[i]) = 4
        /\ pc = "gad_get" => (resolved # None /\ resolved = LoadVersion)
        /\ (\E i \in 1..Len(log) : Rank(log[i]) \in {2, 3, 4}) =>
              (local_run /\ download)
        /\ (Done("load") /\ outcome = "ok") =>
              /\ Last(log) = "inner_load"
              /\ result = PathStr(path(LoadVersion))
              /\ (local_run /\ download) =>
                    /\ InLog("get_asset") /\ InLog("ls")
                    /\ Count("transfer") + Count("skip") = Len(Listed)
              /\ ~(local_run /\ download) => log \in {<<"inner_load">>,
                    <<"acquire", "latest", "release", "inner_load">>}

\* A load() that looked the version up, listed two objects of the folder
\* asset, downloaded both and then loaded.
C14_Witness ==
    /\ Done("load") /\ outcome = "ok"
    /\ log = <<"acquire", "acquire", "latest", "release", "get_asset",
               "release", "ls", "transfer", "transfer", "inner_load">>

\* C15: a download-enabled load() of an asset whose type is neither
\* uri_file nor uri_folder ends with an unsupported-type error, lists and
\* downloads nothing and does not invoke the inner dataset's load.
C15_UnknownTypeRejected ==
    (Done("load") /\ InLog("get_asset")
     /\ assetType \notin {"uri_file", "uri_folder"}) =>
        /\ outcome = "UnsupportedType"
        /\ \A i \in 1..Len(log) : Rank(log[i]) \notin {3, 4, 5}

AzureRunners ==
    {<<"AzurePipelinesRunner">>,
     <<"kedro_azureml", "runner", "AzurePipelinesRunner">>}

\* C16: when the runner is not the Azure pipelines runner the hook marks
\* every asset dataset local and enables download for exactly the pipeline
\* inputs among them; with the Azure pipelines runner it marks none and
\* only clears the version; other datasets are left as they are, and
\* every asset dataset is added to the catalog again under its own name.
C16_HookMarksDatasets ==
    [][(~hook_ran /\ hook_ran') =>
          /\ DOMAIN catalog' = DOMAIN catalog
          /\ \A n \in DOMAIN catalog :
                /\ catalog'[n].asset = catalog[n].asset
                /\ ~catalog[n].asset =>
                      (catalog'[n] = catalog[n] /\ added'[n] = 0)
                /\ catalog[n].asset => added'[n] = 1
                /\ (catalog[n].asset /\ runner \notin AzureRunners) =>
                      /\ catalog'[n].local_run
                      /\ catalog'[n].download <=> n \in inputs
                      /\ catalog'[n].version = catalog[n].version
                /\ (catalog[n].asset /\ runner \in AzureRunners) =>
                      /\ ~catalog'[n].local_run /\ ~catalog'[n].download
                      /\ catalog'[n].azureml_config =
                            catalog[n].azureml_config
                      /\ catalog'[n].version = None]_vars

\* A local run: an input asset dataset with download, an intermediate one
\* without, and a dataset of another kind left alone.
C16_Witness ==
    /\ hook_ran /\ runner = <<"SequentialRunner">>
    /\ inputs = {"raw"}
    /\ catalog["raw"].asset /\ catalog["raw"].local_run
    /\ catalog["raw"].download /\ catalog["raw"].version = <<"3">>
    /\ catalog["features"].asset /\ catalog["features"].local_run
    /\ ~catalog["features"].download
    /\ ~catalog["model"].asset /\ ~catalog["model"].local_run
    /\ added = [n \in DatasetNames |-> IF n = "model" THEN 0 ELSE 1]

\* The segments of a path string that are versions of the asset.
VersionSegments(p) == {p[i] : i \in 1..Len(p)} \cap Versions

\* Whatever version the object has used, it is one value.
VersionsAgree ==
    /\ Cardinality(resolveReturns) <= 1
    /\ pc = "gad_get" => resolveReturns = {resolved}
    /\ azureml_ds # NoAsset => resolveReturns = {azureml_ds.version}
    /\ pc = "dl_fetch" =>
          VersionSegments(download_path(resolved)) \subseteq resolveReturns
    /\ (PathComputed /\ local_run) =>
          VersionSegments(result) \subseteq resolveReturns

NoExplicitVersion == phase = "ready" /\ version_arg = None

\* C17, already for relative inner filepaths: in an object with no
\* explicit version the version given to get_asset, the version segment
\* of the download target and the version segment of the path the inner
\* dataset gets are one value, wherever "latest" moves meanwhile.
C17_OneVersionEverywhere ==
    (NoExplicitVersion /\ filepath[1] # Root) =>
        /\ VersionsAgree
        /\ pc = "dl_fetch" =>
              VersionSegments(download_path(resolved)) # {}
        /\ (PathComputed /\ local_run) => VersionSegments(result) # {}

FailedLookupLeavesNoTrace ==
    (pc = "glv_exit" /\ err # "none") =>
        /\ version_cache = {} /\ version_cache' = {}
        /\ <<phase, version, download, local_run, azureml_config, folder,
             filepath, dataset_config>>' =
           <<phase, version, download, local_run, azureml_config, folder,
             filepath, dataset_config>>

LookupCachesLatest ==
    /\ (pc = "glv_query" /\ pc' = "glv_exit" /\ remoteVersions # {}) =>
          resolved' = latest
    /\ (pc = "glv_exit" /\ pc' # "glv_exit" /\ err = "none") =>
          version_cache' = {<<"load", resolved>>}

CacheAfterLookups ==
    phase = "ready" =>
        /\ \A e \in version_cache : e[1] \in {"load", "save"}
        /\ \A e, f \in version_cache : e[1] = f[1] => e = f
        /\ \A e \in version_cache : e[2] \in Versions
        /\ pc # "glv_exit" =>
              /\ version_cache = {} <=> lookups = failedLookups
              /\ version_cache # {} => lookups = failedLookups + 1
        /\ (Done("resolve") /\ version_arg = None) =>
              /\ outcome = "ok" => version_cache = {<<"load", result[1]>>}
              /\ outcome # "ok" =>
                    (version_cache = {} /\ InLog("latest_fail"))

\* C18: a latest-version lookup that finds no asset leaves the version
\* cache empty and the flags and identity of the object as they were; the
\* next resolve_load_version() looks the version up again and, when the
\* asset exists by then, returns and caches its latest version; the cache
\* never holds more than one entry for "load" and one for "save".
C18_FailureNotCached ==
    /\ []CacheAfterLookups
    /\ [][FailedLookupLeavesNoTrace /\ LookupCachesLatest]_vars

\* The first resolve_load_version() found no asset; the second one looked
\* again, found the asset registered meanwhile and cached its version.
C18_Witness ==
    /\ Done("resolve") /\ outcome = "ok" /\ version_arg = None
    /\ failedLookups = 1 /\ lookups = 2
    /\ InLog("latest")
    /\ version_cache = {<<"load", <<"4">>>>}
    /\ result = <<<<"4">>>>
====
